---- MODULE Spec2Model ----
(***************************************************************************)
(* Garment catalogue backend: the authentication token lifecycle           *)
(* (AuthService over AuthRepository and the jwt helpers), the middleware   *)
(* of the protected routes, and the garment writes, reads and paginated    *)
(* queries (GarmentsService over CrudRepository and ProductSchema), and    *)
(* the process lifecycle: the store connection manager (MongooseConnection)*)
(* and the graceful shutdown of the application (KumudMangement).          *)
(*                                                                         *)
(* Granularity.  Every service method is an async function.  Each `await`  *)
(* of a store operation is one interleaving point: the request is sent by  *)
(* one action, and the store's effect together with the continuation that  *)
(* runs on its reply is the next action.  Requests of different calls are  *)
(* applied by the store in any order.  Time is the wall clock in seconds,  *)
(* the resolution of the iat/exp claims of a JSON web token.               *)
(***************************************************************************)
EXTENDS Integers, Sequences, FiniteSets, TLC

\* ----------------------------------------------------------------- bounds
MaxClock == 1
NumProcs == 2
MaxGarments == 3
MaxPage == 3
MaxLimit == 2
MaxCreated == 1
MaxConnections == 1
MaxEvents == 2

Procs == 1..NumProcs

\* ------------------------------------------------------- program constants
\* JWT_REFRESH_EXPIRES_IN "7d" and JWT_ACCESS_EXPIRES_IN "15m", in seconds
REFRESH_TOKEN_EXPIRES_IN == 7 * 24 * 60 * 60
ACCESS_TOKEN_EXPIRES_IN == 15 * 60

\* status codes of the response-messages envelope constructors
StatusOk == 200
StatusCreated == 201
StatusBadRequest == 400
StatusUnauthorized == 401
StatusForbidden == 403
StatusNotFound == 404
StatusConflict == 409
StatusInternalServerError == 500

\* MongooseConnection's default retryDelayMs
retryDelayMs == 2000

\* the retry timer when it is not set
NoTimer == -1

\* ------------------------------------------------------------------ inputs
\* e-mail addresses a client may send; "bad" has no @ and fails the regex
Emails == {"ana@x.com", "ANA@x.com", "bob@x.com", "bad"}
RegisterPasswords == {"secret1", "short"}
LoginPasswords == {"secret1", "wrong12", ""}
Roles == {"", "admin"}

\* String.prototype.toLowerCase().trim() and the schema's lowercase/trim
\* setters, on the addresses above
LowerTrim(e) == IF e = "ANA@x.com" THEN "ana@x.com" ELSE e

\* /^\S+@\S+\.\S+$/ .test(email)
EmailRegexTest(e) == e # "bad"

\* password.length
StrLen(s) == CASE s = "" -> 0 [] s = "short" -> 5 [] OTHER -> 7

\* --------------------------------------------------------------- variables
VARIABLES
  clock,        \* Math.floor(Date.now() / 1000)
  users,        \* the User collection, in insertion order; _id = position
  calls,        \* per client connection: the AuthService call in flight
  issued,       \* history: refresh tokens returned to a caller with ok
  refreshedOnce,  \* history: tokens t for which a refreshAccessToken(t) returned ok
  refreshedTwice, \* history: tokens t for which two refreshAccessToken(t) returned ok
  loginTokens,  \* history: per user id, refresh tokens returned by userLogin
  superseded,   \* history: login tokens of a user followed by a later login
  revoked,      \* history: tokens issued to a user before a logout, no login since
  registered,   \* history: payload e-mails for which userRegister returned Created
  createdOnce,  \* history: normalised e-mails with one Created
  createdTwice, \* history: normalised e-mails with two Created
  issuedAccess, \* history: access tokens returned to a caller with ok
  loggedOutAccess, \* history: access tokens issued to a user before a logout of that user returned
  latest,       \* history: per user, the refresh token its last login or refresh returned, no logout since
  garments,     \* the Garments collection, in natural (insertion) order
  nextGarmentId,
  gcall,        \* the GarmentsService query in flight
  crud,         \* per client connection: the GarmentsService write or read by id in flight
  updated,      \* history: ids of garments an updateGarment has written
  deleted,      \* history: ids for which a deleteGarment has returned ok
  reachable,    \* environment: the store accepts connections
  isConnected,  \* MongooseConnection.isConnected
  connectionPromise, \* MongooseConnection.connectionPromise: its state
  attempts,     \* history: number of mongoose.connect calls
  retryTimer,   \* seconds until the retry timer fires; NoTimer when not set
  retryOutcome, \* history: how the connect() of the retry callback ended
  handlers,     \* registerEventHandlers has run
  server,       \* KumudMangement.server and the state of the HTTP server
  connections,  \* requests open on the HTTP server
  shuttingDown, \* KumudMangement.shuttingDown
  shutdownPc,   \* position of the gracefulShutdown that passed the guard
  exitCode,     \* the exitCode argument of gracefulShutdown / of process.exit
  exited,       \* process.exit has been called
  shutdownCalls, \* history: number of gracefulShutdown invocations
  shutdownRuns, \* history: number of invocations that passed the guard
  shutdownLog   \* history: the milestones of the shutdown, in order

\* the process lifecycle, which no service call reads or writes
dbVars == <<reachable, isConnected, connectionPromise, attempts, retryTimer,
            retryOutcome, handlers>>
appVars == <<server, connections, shuttingDown, shutdownPc, exitCode, exited,
             shutdownCalls, shutdownRuns, shutdownLog>>
lifeVars == <<dbVars, appVars>>

authVars == <<clock, users, calls, issued, refreshedOnce, refreshedTwice,
              loginTokens, superseded, revoked, registered, createdOnce,
              createdTwice, issuedAccess, loggedOutAccess, latest, lifeVars>>
crudVars == <<crud, updated, deleted>>
garmentVars == <<garments, nextGarmentId, gcall, crudVars, lifeVars>>
vars == <<authVars, garmentVars>>

\* ------------------------------------------------------------------ tokens
\* A JSON web token is determined by its payload {id}, the iat and exp claims
\* jwt.sign adds from the clock, and the secret that signed it (HS256 has no
\* randomness, and no jti is set).
NoToken == [id |-> 0, iat |-> 0, exp |-> 0, key |-> "none"]

signAccessToken(payload, now) ==
  [id |-> payload.id, iat |-> now, exp |-> now + ACCESS_TOKEN_EXPIRES_IN,
   key |-> "access"]

signRefreshToken(payload, now) ==
  [id |-> payload.id, iat |-> now, exp |-> now + REFRESH_TOKEN_EXPIRES_IN,
   key |-> "refresh"]

\* jwt.verify: "invalid" (JsonWebTokenError) when the signature does not
\* verify under the secret, "expired" (TokenExpiredError) when now >= exp,
\* else the decoded payload is returned.
verifyRefreshToken(token, now) ==
  IF token.key # "refresh" THEN "invalid"
  ELSE IF now >= token.exp THEN "expired"
  ELSE "valid"

\* verification with one secret for access and refresh tokens
verifyAccessTokenAnySecret(token, now) ==
  IF token.key \notin {"access", "refresh"} THEN "invalid"
  ELSE IF now >= token.exp THEN "expired"
  ELSE "valid"

verifyAccessToken(token, now) ==
  IF token.key # "access" THEN "invalid"
  ELSE IF now >= token.exp THEN "expired"
  ELSE "valid"

\* tokens a client can present that this server did not just hand out: one
\* signed with the refresh secret more than seven days ago, and one signed
\* with another secret
ExpiredToken ==
  [id |-> 1, iat |-> 0 - REFRESH_TOKEN_EXPIRES_IN - 1, exp |-> 0 - 1,
   key |-> "refresh"]
ForgedToken ==
  [id |-> 1, iat |-> 0, exp |-> REFRESH_TOKEN_EXPIRES_IN, key |-> "forged"]

\* -------------------------------------------------------------------- users
\* bcrypt.hash in the pre-save hook, and bcrypt.compare
Hash(password) == <<"bcrypt", password>>
\* a comparison that accepts every password
comparePasswordAny(candidatePassword, hash) == TRUE

comparePassword(candidatePassword, hash) == hash = Hash(candidatePassword)

NoUser ==
  [id |-> 0, email |-> "", password |-> <<>>, role |-> "", isActive |-> FALSE,
   refreshToken |-> NoToken, lastLogin |-> -1]

UserIds == 1..Len(users)

\* Model.findOne(filter): of the documents that match (given by their
\* positions), the first in natural order; null when none does
FindOneUser(matching) ==
  IF matching = {} THEN NoUser
  ELSE users[CHOOSE i \in matching : \A j \in matching : i <= j]

\* the collection without the unique index: no insert is rejected
DuplicateKeyUnindexed(email) == FALSE

\* the unique index on email (unique: true): an insert with an e-mail that a
\* stored document already has is rejected with a duplicate-key error
DuplicateKey(email) == \E i \in UserIds : users[i].email = email

\* ------------------------------------------------------------------- calls
NoResult == [statusCode |-> 0, message |-> "", accessToken |-> NoToken,
             refreshToken |-> NoToken]

Response(code, msg) == [NoResult EXCEPT !.statusCode = code, !.message = msg]

IdleCall ==
  [op |-> "none", pc |-> "idle", email |-> "", password |-> "", role |-> "",
   token |-> NoToken, userId |-> 0, now |-> 0, newAccess |-> NoToken,
   newRefresh |-> NoToken, result |-> NoResult,
   at |-> "", found |-> FALSE, matched |-> FALSE, rejected |-> FALSE,
   rot |-> FALSE, sup |-> FALSE, rev |-> FALSE, dup |-> FALSE,
   handler |-> FALSE, old |-> FALSE, failed |-> FALSE]

\* a connection can start a call when it has none in flight
Free(p) == calls[p].pc \in {"idle", "done"}

\* a call that has returned: its envelope, and what the history properties
\* need to know of it
Done(c, res) ==
  [IdleCall EXCEPT !.op = c.op, !.pc = "done", !.result = res, !.at = c.pc,
                   !.found = c.found, !.matched = c.matched,
                   !.rejected = c.rejected, !.rot = c.rot,
                   !.sup = c.sup, !.rev = c.rev, !.dup = c.dup,
                   !.failed = c.failed]

histVars == <<issued, refreshedOnce, refreshedTwice, loginTokens, superseded,
              revoked, registered, createdOnce, createdTwice, issuedAccess,
              loggedOutAccess, latest>>

\* ------------------------------------------------------------ userRegister
\* Entry of userRegister up to its first await: the e-mail format check, then
\* the existsByEmail request is sent.
userRegisterInvoke(p, email, password, role) ==
  /\ Free(p)
  /\ LET c == [IdleCall EXCEPT !.op = "userRegister", !.email = email,
                               !.password = password, !.role = role,
                               !.dup = (email \in registered)]
     IN calls' = [calls EXCEPT ![p] =
          IF ~EmailRegexTest(email)
          THEN Done(c, Response(StatusBadRequest, "Invalid email format"))
          ELSE [c EXCEPT !.pc = "existsByEmail"]]
  /\ UNCHANGED <<garmentVars, clock, users, histVars>>

\* existsByEmail with the filter compared as sent, not cast through the schema
existsByEmailUncast(email) == \E i \in UserIds : users[i].email = email

\* AuthRepository.existsByEmail: countDocuments({email}) > 0; the filter is
\* cast through the schema, whose setters lower-case and trim it.
existsByEmail(email) == \E i \in UserIds : users[i].email = LowerTrim(email)

\* The store answers existsByEmail; the continuation returns Conflict, checks
\* the password length, and sends the create.
userRegisterExists(p) ==
  /\ calls[p].pc = "existsByEmail"
  /\ LET c == calls[p]
     IN calls' = [calls EXCEPT ![p] =
          IF existsByEmail(c.email)
          THEN Done([c EXCEPT !.found = TRUE],
                    Response(StatusConflict, "User already exists with this email"))
          ELSE IF StrLen(c.password) < 6
          THEN Done(c, Response(StatusBadRequest,
                                "Password must be at least 6 characters"))
          ELSE [c EXCEPT !.pc = "create"]]
  /\ UNCHANGED <<garmentVars, clock, users, histVars>>

\* The document userRegister hands to create
NewUser(c) ==
  [id |-> Len(users) + 1,
   email |-> LowerTrim(c.email),
   password |-> Hash(c.password),
   role |-> IF c.role # "" THEN c.role ELSE "user",
   isActive |-> TRUE,
   refreshToken |-> NoToken,
   lastLogin |-> -1]

\* CrudRepository.create through the unique e-mail index: the insert is
\* applied, or rejected with a duplicate-key error that userRegister's catch
\* turns into internalServerError(error.message).
userRegisterCreate(p) ==
  /\ calls[p].pc = "create"
  /\ LET c == calls[p]
         doc == NewUser(c)
     IN IF DuplicateKey(doc.email)
        THEN /\ calls' = [calls EXCEPT ![p] =
                   Done([c EXCEPT !.rejected = TRUE],
                        Response(StatusInternalServerError,
                                 "E11000 duplicate key error"))]
             /\ UNCHANGED <<users, registered, createdOnce, createdTwice>>
        ELSE /\ users' = Append(users, doc)
             /\ calls' = [calls EXCEPT ![p] =
                   Done(c, Response(StatusCreated, "User registered successfully"))]
             /\ registered' = registered \cup {c.email}
             /\ createdOnce' = createdOnce \cup {doc.email}
             /\ createdTwice' = IF doc.email \in createdOnce
                                THEN createdTwice \cup {doc.email}
                                ELSE createdTwice
  /\ UNCHANGED <<garmentVars, clock, issued, refreshedOnce, refreshedTwice, loginTokens,
                 superseded, revoked, issuedAccess, loggedOutAccess, latest>>

\* --------------------------------------------------------------- userLogin
\* Entry of userLogin: the required-field check, then the
\* findByEmailWithPassword request is sent.
userLoginInvoke(p, email, password) ==
  /\ Free(p)
  /\ LET c == [IdleCall EXCEPT !.op = "userLogin", !.email = email,
                               !.password = password]
     IN calls' = [calls EXCEPT ![p] =
          IF email = "" \/ password = ""
          THEN Done(c, Response(StatusBadRequest, "Email and password are required"))
          ELSE [c EXCEPT !.pc = "findByEmail"]]
  /\ UNCHANGED <<garmentVars, clock, users, histVars>>

\* AuthRepository.findByEmailWithPassword
findByEmailWithPassword(email) ==
  FindOneUser({i \in UserIds : users[i].email = email})

\* The store answers findByEmailWithPassword; the continuation checks the
\* account, the active flag and the password in that order, signs the token
\* pair and sends storeRefreshToken.
userLoginFind(p) ==
  /\ calls[p].pc = "findByEmail"
  /\ LET c == calls[p]
         existingUser == findByEmailWithPassword(LowerTrim(c.email))
         userPayload == [id |-> existingUser.id]
     IN calls' = [calls EXCEPT ![p] =
          IF existingUser = NoUser
          THEN Done(c, Response(StatusUnauthorized, "Invalid email or password"))
          ELSE IF ~existingUser.isActive
          THEN Done([c EXCEPT !.found = TRUE,
                              !.matched = comparePassword(c.password,
                                                          existingUser.password)],
                    Response(StatusForbidden, "Account is deactivated"))
          ELSE IF ~comparePassword(c.password, existingUser.password)
          THEN Done([c EXCEPT !.found = TRUE],
                    Response(StatusUnauthorized, "Invalid email or password"))
          ELSE [c EXCEPT !.pc = "storeLogin", !.found = TRUE, !.matched = TRUE,
                         !.userId = existingUser.id, !.now = clock,
                         !.newAccess = signAccessToken(userPayload, clock),
                         !.newRefresh = signRefreshToken(userPayload, clock)]]
  /\ UNCHANGED <<garmentVars, clock, users, histVars>>

\* an update whose filter matches every user
storeRefreshTokenAll(userId, refreshToken, now) ==
  [i \in UserIds |->
     [users[i] EXCEPT !.refreshToken = refreshToken, !.lastLogin = now]]

\* AuthRepository.storeRefreshToken: findByIdAndUpdate(userId,
\* {refreshToken, lastLogin: new Date()})
storeRefreshToken(userId, refreshToken, now) ==
  [i \in UserIds |->
     IF users[i].id = userId
     THEN [users[i] EXCEPT !.refreshToken = refreshToken, !.lastLogin = now]
     ELSE users[i]]

\* a login of user u returned: the stale flags of calls in flight that carry a
\* token of u no longer apply (the user has logged in again)
AfterLogin(u, cs) ==
  [q \in Procs |-> IF cs[q].token.id = u THEN [cs[q] EXCEPT !.rev = FALSE]
                   ELSE cs[q]]

\* The store applies storeRefreshToken; userLogin returns ok with the pair.
userLoginStore(p) ==
  /\ calls[p].pc = "storeLogin"
  /\ LET c == calls[p]
         res == [Response(StatusOk, "Login successful") EXCEPT
                   !.accessToken = c.newAccess, !.refreshToken = c.newRefresh]
     IN /\ users' = storeRefreshToken(c.userId, c.newRefresh, c.now)
        /\ calls' = AfterLogin(c.userId, [calls EXCEPT ![p] = Done(c, res)])
        /\ issued' = issued \cup {c.newRefresh}
        /\ issuedAccess' = issuedAccess \cup {c.newAccess}
        /\ superseded' = superseded \cup {t \in loginTokens : t.id = c.userId}
        /\ loginTokens' = loginTokens \cup {c.newRefresh}
        /\ revoked' = {t \in revoked : t.id # c.userId}
        /\ latest' = {t \in latest : t.id # c.userId} \cup {c.newRefresh}
  /\ UNCHANGED <<garmentVars, clock, refreshedOnce, refreshedTwice, registered, createdOnce,
                 createdTwice, loggedOutAccess>>

\* ------------------------------------------------------ refreshAccessToken
\* refresh tokens a client can present
RefreshInputs == issued \cup {ExpiredToken, ForgedToken}

\* Entry of refreshAccessToken: verifyRefreshToken (a throw lands in the
\* catch), the decoded-id check, then the findByRefreshToken request is sent.
refreshAccessTokenInvoke(p, oldRefreshToken) ==
  /\ Free(p)
  /\ LET c == [IdleCall EXCEPT !.op = "refreshAccessToken",
                               !.token = oldRefreshToken,
                               !.rot = (oldRefreshToken \in refreshedOnce),
                               !.sup = (oldRefreshToken \in superseded),
                               !.rev = (oldRefreshToken \in revoked)]
     IN calls' = [calls EXCEPT ![p] =
          IF verifyRefreshToken(oldRefreshToken, clock) # "valid"
          THEN Done(c, Response(StatusUnauthorized,
                                "Invalid or expired refresh token"))
          ELSE IF oldRefreshToken.id = 0
          THEN Done(c, Response(StatusUnauthorized, "Invalid refresh token"))
          ELSE [c EXCEPT !.pc = "findByRefreshToken"]]
  /\ UNCHANGED <<garmentVars, clock, users, histVars>>

\* a lookup that also requires the account to be active
findByRefreshTokenActive(refreshToken) ==
  FindOneUser({i \in UserIds : /\ users[i].refreshToken = refreshToken
                               /\ users[i].isActive})

\* AuthRepository.findByRefreshToken
findByRefreshToken(refreshToken) ==
  FindOneUser({i \in UserIds : users[i].refreshToken = refreshToken})

\* the continuation without the cross-check
TokenMismatchUnchecked(user, token) == FALSE

\* user._id.toString() !== decoded.id
TokenMismatch(user, token) == user.id # token.id

\* The store answers findByRefreshToken; the continuation rejects an unknown
\* token and an id mismatch, signs the new pair and sends storeRefreshToken.
refreshAccessTokenFind(p) ==
  /\ calls[p].pc = "findByRefreshToken"
  /\ LET c == calls[p]
         user == findByRefreshToken(c.token)
         userPayload == [id |-> user.id]
     IN calls' = [calls EXCEPT ![p] =
          IF user = NoUser
          THEN Done(c, Response(StatusUnauthorized,
                                "Invalid refresh token or user inactive"))
          ELSE IF TokenMismatch(user, c.token)
          THEN Done([c EXCEPT !.found = TRUE],
                    Response(StatusUnauthorized, "Token mismatch"))
          ELSE [c EXCEPT !.pc = "storeRefresh", !.found = TRUE,
                         !.userId = user.id, !.now = clock,
                         !.newAccess = signAccessToken(userPayload, clock),
                         !.newRefresh = signRefreshToken(userPayload, clock)]]
  /\ UNCHANGED <<garmentVars, clock, users, histVars>>

\* The store applies storeRefreshToken; refreshAccessToken returns ok with
\* the new pair.
refreshAccessTokenStore(p) ==
  /\ calls[p].pc = "storeRefresh"
  /\ LET c == calls[p]
         res == [Response(StatusOk, "Token refreshed successfully") EXCEPT
                   !.accessToken = c.newAccess, !.refreshToken = c.newRefresh]
     IN /\ users' = storeRefreshToken(c.userId, c.newRefresh, c.now)
        /\ calls' = [calls EXCEPT ![p] = Done(c, res)]
        /\ issued' = issued \cup {c.newRefresh}
        /\ issuedAccess' = issuedAccess \cup {c.newAccess}
        /\ refreshedOnce' = refreshedOnce \cup {c.token}
        /\ refreshedTwice' = IF c.token \in refreshedOnce
                             THEN refreshedTwice \cup {c.token}
                             ELSE refreshedTwice
        /\ latest' = {t \in latest : t.id # c.userId} \cup {c.newRefresh}
  /\ UNCHANGED <<garmentVars, clock, loginTokens, superseded, revoked, registered,
                 createdOnce, createdTwice, loggedOutAccess>>

\* -------------------------------------------------------------- userLogout
\* Entry of userLogout: the clearRefreshToken request is sent.
userLogoutInvoke(p, userId) ==
  /\ Free(p)
  /\ calls' = [calls EXCEPT ![p] =
                 [IdleCall EXCEPT !.op = "userLogout", !.userId = userId,
                                  !.pc = "clearRefreshToken"]]
  /\ UNCHANGED <<garmentVars, clock, users, histVars>>

\* the update without $unset: {refreshToken: 1} stores the value 1
clearRefreshTokenSet(userId) ==
  [i \in UserIds |->
     IF users[i].id = userId
     THEN [users[i] EXCEPT !.refreshToken = [NoToken EXCEPT !.key = "1"]]
     ELSE users[i]]

\* AuthRepository.clearRefreshToken: findByIdAndUpdate(userId,
\* {$unset: {refreshToken: 1}})
clearRefreshToken(userId) ==
  [i \in UserIds |->
     IF users[i].id = userId
     THEN [users[i] EXCEPT !.refreshToken = NoToken]
     ELSE users[i]]

\* The store applies clearRefreshToken; userLogout returns ok.  (found
\* records whether a refresh token was stored when it was cleared.)
userLogoutClear(p) ==
  /\ calls[p].pc = "clearRefreshToken"
  /\ LET c == calls[p]
     IN /\ users' = clearRefreshToken(c.userId)
        /\ calls' = [calls EXCEPT ![p] =
             Done([c EXCEPT !.found = users[c.userId].refreshToken # NoToken],
                  Response(StatusOk, "Logged out successfully"))]
        /\ revoked' = revoked \cup {t \in issued : t.id = c.userId}
        /\ loggedOutAccess' =
             loggedOutAccess \cup {t \in issuedAccess : t.id = c.userId}
        /\ latest' = {t \in latest : t.id # c.userId}
  /\ UNCHANGED <<garmentVars, clock, issued, refreshedOnce, refreshedTwice, loginTokens,
                 superseded, registered, createdOnce, createdTwice, issuedAccess>>

\* ---------------------------------------------------------- getUserProfile
\* user ids a client may ask the profile of: an account's, and an unknown one
ProfileIds == 1..2

\* Entry of getUserProfile: the findByIdActive request is sent.
getUserProfileInvoke(p, userId) ==
  /\ Free(p)
  /\ calls' = [calls EXCEPT ![p] =
                 [IdleCall EXCEPT !.op = "getUserProfile", !.userId = userId,
                                  !.pc = "findByIdActive"]]
  /\ UNCHANGED <<garmentVars, clock, users, histVars>>

\* AuthRepository.findByIdActive: findOne({_id: userId})
findByIdActive(userId) ==
  FindOneUser({i \in UserIds : users[i].id = userId})

\* The store answers findByIdActive; getUserProfile returns notFound for
\* null and ok with the user's details otherwise.
getUserProfileFind(p) ==
  /\ calls[p].pc = "findByIdActive"
  /\ LET c == calls[p]
         user == findByIdActive(c.userId)
     IN calls' = [calls EXCEPT ![p] =
          IF user = NoUser
          THEN Done(c, Response(StatusNotFound, "User not found"))
          ELSE Done([c EXCEPT !.found = TRUE],
                    Response(StatusOk, "Profile retrieved successfully"))]
  /\ UNCHANGED <<garmentVars, clock, users, histVars>>

\* ----------------------------------------------------------- store failure
\* the positions at which an AuthService call awaits the store
AuthStoreRequests ==
  {"existsByEmail", "create", "findByEmail", "storeLogin",
   "findByRefreshToken", "storeRefresh", "clearRefreshToken",
   "findByIdActive"}

\* what the catch block of each method returns for an error that is thrown
\* with a message
CatchResult(op) ==
  CASE op = "userRegister" ->
         Response(StatusInternalServerError, "store error")
    [] op = "userLogin" ->
         Response(StatusInternalServerError, "store error")
    [] op = "refreshAccessToken" ->
         Response(StatusUnauthorized, "Invalid or expired refresh token")
    [] op = "getUserProfile" ->
         Response(StatusInternalServerError, "Failed to retrieve profile")
    [] OTHER -> Response(StatusInternalServerError, "store error")

\* The store request a call awaits fails (the connection is lost, the
\* operation times out): it has no effect, the await throws, and the
\* method's catch block returns.  The call ends there; nothing is retried.
StoreFailure(p) ==
  /\ calls[p].pc \in AuthStoreRequests
  /\ calls' = [calls EXCEPT ![p] =
       Done([calls[p] EXCEPT !.failed = TRUE], CatchResult(calls[p].op))]
  /\ UNCHANGED <<garmentVars, clock, users, histVars>>

\* ---------------------------------------------------------- authMiddleware
\* an access token signed more than fifteen minutes ago
ExpiredAccessToken ==
  [id |-> 1, iat |-> 0 - ACCESS_TOKEN_EXPIRES_IN - 1, exp |-> 0 - 1,
   key |-> "access"]

\* Authorization headers a client may send, as authHeader.split(" "): none,
\* the scheme alone, and the scheme with a token - an access token or a
\* refresh token this server returned, an expired one, a forged one
AuthHeaders ==
  {<<>>, <<"Bearer">>}
    \cup {<<"Bearer", t>> :
            t \in issuedAccess \cup issued \cup {ExpiredAccessToken, ForgedToken}}

\* authHeader && authHeader.split(" ")[1]
HeaderToken(header) == IF Len(header) >= 2 THEN header[2] ELSE NoToken

\* a check that also rejects the token of a user with no stored refresh token
AccessVerdictWithSession(token, now) ==
  IF token = NoToken THEN "missing"
  ELSE IF \E u \in UserIds :
            users[u].id = token.id /\ users[u].refreshToken = NoToken
  THEN "invalid"
  ELSE verifyAccessToken(token, now)

\* the outcome of the middleware's token check: the !token test, then
\* verifyAccessToken
AccessVerdict(token, now) ==
  IF token = NoToken THEN "missing" ELSE verifyAccessToken(token, now)

\* authMiddleware on a request to a protected route.  It is synchronous: one
\* step.  handler records that next() was called without an error, so that
\* the route's handler runs, with req.user.id in userId; otherwise the
\* result is the ErrorHandler passed to next.
authMiddleware(p, header) ==
  /\ Free(p)
  /\ LET token == HeaderToken(header)
         verdict == AccessVerdict(token, clock)
         c == [IdleCall EXCEPT !.op = "authMiddleware", !.pc = "done",
                               !.at = "authMiddleware", !.token = token,
                               !.now = clock,
                               !.old = token \in loggedOutAccess]
     IN calls' = [calls EXCEPT ![p] =
          CASE verdict = "missing" ->
                 [c EXCEPT !.result =
                    Response(StatusUnauthorized, "Access token required")]
            [] verdict = "expired" ->
                 [c EXCEPT !.result =
                    Response(StatusForbidden, "Access token expired")]
            [] verdict = "invalid" ->
                 [c EXCEPT !.result =
                    Response(StatusForbidden, "Invalid access token")]
            [] OTHER -> [c EXCEPT !.handler = TRUE, !.userId = token.id]]
  /\ UNCHANGED <<garmentVars, clock, users, histVars>>

\* ------------------------------------------------------------- environment
\* isActive is the schema's soft-delete flag; no service method writes it, an
\* administrator clears it in the store.
DeactivateAccount(u) ==
  /\ users[u].isActive
  /\ users' = [users EXCEPT ![u].isActive = FALSE]
  /\ UNCHANGED <<garmentVars, clock, calls, histVars>>

\* The store is also written outside the service (an operator's repair, a
\* restore): the record of user v comes to hold the refresh token stored for
\* user u.  No service method does this; the id cross-check of
\* refreshAccessToken is the defence against it.
MisplaceToken(u, v) ==
  /\ u # v
  /\ users[u].refreshToken # NoToken
  /\ users[v].refreshToken # users[u].refreshToken
  /\ users' = [users EXCEPT ![v].refreshToken = users[u].refreshToken]
  /\ UNCHANGED <<garmentVars, clock, calls, histVars>>

\* a second passes
Tick ==
  /\ clock < MaxClock
  /\ clock' = clock + 1
  /\ UNCHANGED <<garmentVars, users, calls, histVars>>

\* ---------------------------------------------------------------- garments
\* garment names and search terms, as sequences of characters
GarmentNames == {<<"a", "b">>, <<"B", "c">>}
SearchTerms == {<<"A">>, <<".", "c">>}

\* the garments the paginated queries run over: they differ in name
PagedGarments ==
  {[name |-> n, price |-> 5, vendor |-> <<"a">>] : n \in GarmentNames}

LowerChar(ch) == CASE ch = "A" -> "a" [] ch = "B" -> "b" [] OTHER -> ch

\* {$regex: searchValue, $options: "i"}: the value is the pattern, unescaped,
\* so "." matches any character; the match is unanchored and ignores case.
RegexMatch(pattern, str) ==
  \E i \in 0..(Len(str) - Len(pattern)) :
    \A j \in 1..Len(pattern) :
      \/ pattern[j] = "."
      \/ LowerChar(pattern[j]) = LowerChar(str[i + j])

\* a query filter: {} or {name: {$regex, $options}}
NoFilter == [regex |-> FALSE, value |-> <<>>]
NameFilter(searchValue) == [regex |-> TRUE, value |-> searchValue]
Matches(filter, doc) == ~filter.regex \/ RegexMatch(filter.value, doc.name)

\* Model.find(filter): the matching documents in natural order
RECURSIVE Find(_, _)
Find(filter, docs) ==
  IF docs = <<>> THEN <<>>
  ELSE IF Matches(filter, Head(docs))
       THEN <<Head(docs)>> \o Find(filter, Tail(docs))
       ELSE Find(filter, Tail(docs))

\* Model.countDocuments(filter)
countDocuments(filter) == Len(Find(filter, garments))

\* Query.skip(skip).limit(limit) on a result sequence
SkipLimit(docs, skip, limit) ==
  SubSeq(docs, skip + 1, IF skip + limit < Len(docs) THEN skip + limit ELSE Len(docs))

\* Math.floor in place of Math.ceil
MathFloor(a, b) == a \div b

\* Math.ceil(a / b) for a >= 0 and b >= 1
MathCeil(a, b) == (a + b - 1) \div b

NoPage == 0

IdleQuery ==
  [op |-> "none", pc |-> "idle", page |-> 0, limit |-> 0, filter |-> NoFilter,
   repoCalls |-> 0, docsRead |-> FALSE, countRead |-> FALSE,
   docs |-> <<>>, totalDocs |-> 0, statusCode |-> 0, result |-> <<>>]

\* ------------------------------------------------------- garment documents
\* A garment is modelled by three of its paths and its timestamps: name
\* (string, trim, minlength; description, size, color, styleCode and
\* collection_name have the same trim setter), price (number, min), and vendor
\* (string, trim and lowercase; categories and region have the same setters).
Fields == {"name", "price", "vendor"}

\* the validator bounds of ProductSchema
NameMinLength == 2
PriceMin == 0

\* String.prototype.trim on a character sequence
RECURSIVE TrimStart(_)
TrimStart(s) ==
  IF s # <<>> /\ Head(s) = " " THEN TrimStart(Tail(s)) ELSE s

RECURSIVE TrimEnd(_)
TrimEnd(s) ==
  IF s # <<>> /\ s[Len(s)] = " " THEN TrimEnd(SubSeq(s, 1, Len(s) - 1)) ELSE s

Trim(s) == TrimEnd(TrimStart(s))

\* String.prototype.toLowerCase on a character sequence
ToLowerCase(s) == [i \in 1..Len(s) |-> LowerChar(s[i])]

\* the setters without lowercase on vendor
CastKeepCase(path, v) ==
  CASE path = "name" -> Trim(v)
    [] path = "vendor" -> Trim(v)
    [] OTHER -> v

\* the setters the schema declares on a path, applied when a value is cast
\* for a document or for an update
Cast(path, v) ==
  CASE path = "name" -> Trim(v)
    [] path = "vendor" -> ToLowerCase(Trim(v))
    [] OTHER -> v

CastAll(data) == [f \in DOMAIN data |-> Cast(f, data[f])]

\* the validators the schema declares on a path, on the cast value
Validate(path, v) ==
  CASE path = "name" -> Len(v) >= NameMinLength
    [] path = "price" -> v >= PriceMin
    [] OTHER -> Len(v) >= 1

\* Document.validate: every required path is present and every path validates
ValidDocument(data) ==
  /\ Fields \subseteq DOMAIN data
  /\ \A f \in DOMAIN data : Validate(f, data[f])

\* findByIdAndUpdate without runValidators
UpdateValidatorsOff(data) == TRUE

\* the update validators of {runValidators: true}: the validators of the
\* paths the update sets
UpdateValidators(data) == \A f \in DOMAIN data : Validate(f, data[f])

\* findById result null
NoGarment ==
  [id |-> 0, name |-> <<>>, price |-> 0, vendor |-> <<>>,
   createdAt |-> 0, updatedAt |-> 0]

\* new this.model(data) saved under _id id at time now (timestamps: true)
NewGarment(data, id, now) ==
  [id |-> id, name |-> data.name, price |-> data.price,
   vendor |-> data.vendor, createdAt |-> now, updatedAt |-> now]

\* an update that replaces the document: the paths it does not set are reset
ApplyUpdateReplace(doc, data, now) ==
  [f \in DOMAIN doc |->
     IF f \in DOMAIN data THEN data[f]
     ELSE IF f = "updatedAt" THEN now
     ELSE IF f \in {"id", "createdAt"} THEN doc[f]
     ELSE NoGarment[f]]

\* the document after $set of the update's paths at time now
ApplyUpdate(doc, data, now) ==
  [f \in DOMAIN doc |->
     IF f \in DOMAIN data THEN data[f]
     ELSE IF f = "updatedAt" THEN now
     ELSE doc[f]]

HasGarment(id) == \E i \in 1..Len(garments) : garments[i].id = id

\* Model.findById(id)
findById(id) ==
  IF HasGarment(id)
  THEN garments[CHOOSE i \in 1..Len(garments) : garments[i].id = id]
  ELSE NoGarment

\* a delete that answers the document and leaves it in the collection
deleteByIdKeeps(id) == garments

\* Model.findByIdAndDelete(id): the collection without the document
deleteById(id) == SelectSeq(garments, LAMBDA d : d.id # id)

\* an id string that is no ObjectId; the ids 1, 2, ... stand for ObjectIds
MalformedId == 0
ObjectIdIsValid(id) == id # MalformedId

\* GarmentsService.addGarments by a client whose reply is not observed:
\* CrudRepository.create validates and stores the document
addGarments(g) ==
  /\ nextGarmentId <= MaxGarments
  /\ ValidDocument(CastAll(g))
  /\ garments' = Append(garments, NewGarment(CastAll(g), nextGarmentId, clock))
  /\ nextGarmentId' = nextGarmentId + 1
  /\ UNCHANGED <<gcall, crudVars, authVars>>

\* GarmentsService.deleteGarment by a client whose reply is not observed:
\* CrudRepository.deleteById removes the document
deleteGarment(id) ==
  /\ HasGarment(id)
  /\ garments' = deleteById(id)
  /\ deleted' = deleted \cup {id}
  /\ UNCHANGED <<nextGarmentId, gcall, crud, updated, authVars>>

\* ------------------------------------------------- garment writes and reads
\* garments a client may send to addGarments: one in stored form, one the
\* setters change, one whose price violates the schema
GarmentInputs ==
  {[name |-> <<"a", "b">>, price |-> 5, vendor |-> <<"a">>],
   [name |-> <<" ", "a", "b">>, price |-> 0, vendor |-> <<"B">>],
   [name |-> <<"a", "b">>, price |-> -1, vendor |-> <<"a">>]}

\* partial garments a client may send to updateGarment
UpdateInputs ==
  {[price |-> -1], [price |-> 7], [vendor |-> <<"B">>],
   [price |-> 3, vendor |-> <<"B">>]}

\* ids a client may send: the malformed one and ObjectIds
GarmentIdInputs == {MalformedId} \cup 1..MaxCreated

\* The call frame of addGarments, updateGarment, deleteGarment and
\* getGarmentById.  The service has no try/catch: an error of the repository
\* call leaves the method as a rejected promise (thrown).
IdleCrud ==
  [op |-> "none", pc |-> "idle", id |-> 0, data |-> <<>>,
   statusCode |-> 0, thrown |-> FALSE, garment |-> NoGarment,
   gone |-> FALSE, fresh |-> FALSE]

CrudFree(p) == crud[p].pc \in {"idle", "done"}

\* return ResponseMessage.*(..., {garment})
CrudDone(c, statusCode, garment) ==
  [c EXCEPT !.pc = "done", !.statusCode = statusCode, !.garment = garment]

\* the awaited repository call rejects and the method rejects with it
CrudThrown(c) == [c EXCEPT !.pc = "done", !.thrown = TRUE]

\* entry of the methods that take an id: the ObjectId check, then the
\* request.  (gone records that the id had been deleted when the call was
\* made; fresh, for an update, that no update of the id had been applied.)
CrudInvoke(p, op, pc, id, data) ==
  /\ CrudFree(p)
  /\ LET c == [IdleCrud EXCEPT !.op = op, !.id = id, !.data = data,
                               !.gone = id \in deleted,
                               !.fresh = (op = "updateGarment"
                                          /\ id \notin updated)]
     IN crud' = [crud EXCEPT ![p] =
          IF ObjectIdIsValid(id)
          THEN [c EXCEPT !.pc = pc]
          ELSE CrudDone(c, StatusBadRequest, NoGarment)]
  /\ UNCHANGED <<garments, nextGarmentId, gcall, updated, deleted, authVars>>

addGarmentsInvoke(p, g) ==
  /\ CrudFree(p)
  /\ crud' = [crud EXCEPT ![p] =
       [IdleCrud EXCEPT !.op = "addGarments", !.pc = "create", !.data = g]]
  /\ UNCHANGED <<garments, nextGarmentId, gcall, updated, deleted, authVars>>

\* CrudRepository.create: doc.save() validates the document, inserts it and
\* answers with it (never with null); addGarments returns created
addGarmentsCreate(p) ==
  LET c == crud[p]
      data == CastAll(c.data)
      doc == NewGarment(data, nextGarmentId, clock)
  IN /\ c.pc = "create"
     /\ IF ValidDocument(data)
        THEN /\ nextGarmentId <= MaxCreated
             /\ garments' = Append(garments, doc)
             /\ nextGarmentId' = nextGarmentId + 1
             /\ crud' = [crud EXCEPT ![p] = CrudDone(c, StatusCreated, doc)]
        ELSE /\ crud' = [crud EXCEPT ![p] = CrudThrown(c)]
             /\ UNCHANGED <<garments, nextGarmentId>>
     /\ UNCHANGED <<gcall, updated, deleted, authVars>>

updateGarmentInvoke(p, id, data) ==
  CrudInvoke(p, "updateGarment", "updateById", id, data)

\* CrudRepository.updateById: findByIdAndUpdate(id, data, {new: true,
\* runValidators: true}) casts the update, runs the update validators, and
\* only then writes; it answers the updated document, or null
updateGarmentUpdate(p) ==
  LET c == crud[p]
      data == CastAll(c.data)
      doc == ApplyUpdate(findById(c.id), data, clock)
  IN /\ c.pc = "updateById"
     /\ IF ~UpdateValidators(data)
        THEN /\ crud' = [crud EXCEPT ![p] = CrudThrown(c)]
             /\ UNCHANGED <<garments, updated>>
        ELSE IF ~HasGarment(c.id)
        THEN /\ crud' = [crud EXCEPT ![p] =
                  CrudDone(c, StatusNotFound, NoGarment)]
             /\ UNCHANGED <<garments, updated>>
        ELSE /\ garments' = [i \in 1..Len(garments) |->
                  IF garments[i].id = c.id THEN doc ELSE garments[i]]
             /\ updated' = updated \cup {c.id}
             /\ crud' = [crud EXCEPT ![p] = CrudDone(c, StatusOk, doc)]
     /\ UNCHANGED <<nextGarmentId, gcall, deleted, authVars>>

deleteGarmentInvoke(p, id) ==
  CrudInvoke(p, "deleteGarment", "deleteById", id, <<>>)

\* CrudRepository.deleteById: findByIdAndDelete answers the removed document,
\* or null
deleteGarmentDelete(p) ==
  LET c == crud[p]
  IN /\ c.pc = "deleteById"
     /\ IF HasGarment(c.id)
        THEN /\ garments' = deleteById(c.id)
             /\ deleted' = deleted \cup {c.id}
             /\ crud' = [crud EXCEPT ![p] =
                  CrudDone(c, StatusOk, findById(c.id))]
        ELSE /\ crud' = [crud EXCEPT ![p] =
                  CrudDone(c, StatusNotFound, NoGarment)]
             /\ UNCHANGED <<garments, deleted>>
     /\ UNCHANGED <<nextGarmentId, gcall, updated, authVars>>

getGarmentByIdInvoke(p, id) ==
  CrudInvoke(p, "getGarmentById", "findById", id, <<>>)

\* CrudRepository.findById answers the document, or null
getGarmentByIdFind(p) ==
  LET c == crud[p]
  IN /\ c.pc = "findById"
     /\ crud' = [crud EXCEPT ![p] =
          IF HasGarment(c.id)
          THEN CrudDone([c EXCEPT !.fresh = c.id \notin updated],
                        StatusOk, findById(c.id))
          ELSE CrudDone(c, StatusNotFound, NoGarment)]
     /\ UNCHANGED <<garments, nextGarmentId, gcall, updated, deleted, authVars>>

\* The repository request a garment call awaits fails: the method has no
\* catch block, and rejects with the error.
CrudStoreFailure(p) ==
  /\ crud[p].pc \in {"create", "updateById", "deleteById", "findById"}
  /\ crud' = [crud EXCEPT ![p] = CrudThrown(crud[p])]
  /\ UNCHANGED <<garments, nextGarmentId, gcall, updated, deleted, authVars>>

\* the guard with page 0 let through
InvalidPaginationFromZero(page, limit) == page < 0 \/ limit < 1

\* the pagination guard of getAllGarments and searchGarmentsByName
InvalidPagination(page, limit) == page < 1 \/ limit < 1

\* Entry of getAllGarments / searchGarmentsByName: the guard returns
\* badRequest, else the repository's findWithPagination is called and sends
\* its two reads.
PaginatedInvoke(op, filter, page, limit) ==
  /\ gcall.pc \in {"idle", "done"}
  /\ gcall' =
       IF InvalidPagination(page, limit)
       THEN [IdleQuery EXCEPT !.op = op, !.pc = "done", !.page = page,
                              !.limit = limit, !.filter = filter,
                              !.statusCode = StatusBadRequest]
       ELSE [IdleQuery EXCEPT !.op = op, !.pc = "findWithPagination",
                              !.page = page, !.limit = limit,
                              !.filter = filter, !.repoCalls = 1]
  /\ UNCHANGED <<garments, nextGarmentId, crudVars, authVars>>

getAllGarmentsInvoke(page, limit) ==
  PaginatedInvoke("getAllGarments", NoFilter, page, limit)

searchGarmentsByNameInvoke(name, page, limit) ==
  PaginatedInvoke("searchGarmentsByName", NameFilter(name), page, limit)

\* the result record with hasNextPage computed by page <= totalPages
PaginationResultInclusive(c) ==
  LET totalPages == MathCeil(c.totalDocs, c.limit)
      hasNextPage == c.page <= totalPages
      hasPrevPage == c.page > 1
  IN [docs |-> c.docs,
      totalDocs |-> c.totalDocs,
      totalPages |-> totalPages,
      currentPage |-> c.page,
      hasNextPage |-> hasNextPage,
      hasPrevPage |-> hasPrevPage,
      nextPage |-> IF hasNextPage THEN c.page + 1 ELSE NoPage,
      prevPage |-> IF hasPrevPage THEN c.page - 1 ELSE NoPage]

\* CrudRepository.findWithPagination after Promise.all: the result record
PaginationResult(c) ==
  LET totalPages == MathCeil(c.totalDocs, c.limit)
      hasNextPage == c.page < totalPages
      hasPrevPage == c.page > 1
  IN [docs |-> c.docs,
      totalDocs |-> c.totalDocs,
      totalPages |-> totalPages,
      currentPage |-> c.page,
      hasNextPage |-> hasNextPage,
      hasPrevPage |-> hasPrevPage,
      nextPage |-> IF hasNextPage THEN c.page + 1 ELSE NoPage,
      prevPage |-> IF hasPrevPage THEN c.page - 1 ELSE NoPage]

\* a settlement that reads the page and the count again, from one state
SettleSnapshot(c) ==
  IF c.docsRead /\ c.countRead
  THEN LET d == [c EXCEPT
                   !.docs = SkipLimit(Find(c.filter, garments),
                                      (c.page - 1) * c.limit, c.limit),
                   !.totalDocs = countDocuments(c.filter)]
       IN [d EXCEPT !.pc = "done", !.statusCode = StatusOk,
                    !.result = PaginationResult(d)]
  ELSE c

\* when both reads of Promise.all have been answered the service returns ok
\* with the result
Settle(c) ==
  IF c.docsRead /\ c.countRead
  THEN [c EXCEPT !.pc = "done", !.statusCode = StatusOk,
                 !.result = PaginationResult(c)]
  ELSE c

\* the store answers find(filter).skip(skip).limit(limit)
findWithPaginationFind ==
  /\ gcall.pc = "findWithPagination"
  /\ ~gcall.docsRead
  /\ LET skip == (gcall.page - 1) * gcall.limit
     IN gcall' = Settle([gcall EXCEPT
          !.docsRead = TRUE,
          !.docs = SkipLimit(Find(gcall.filter, garments), skip, gcall.limit)])
  /\ UNCHANGED <<garments, nextGarmentId, crudVars, authVars>>

\* the store answers countDocuments(filter)
findWithPaginationCount ==
  /\ gcall.pc = "findWithPagination"
  /\ ~gcall.countRead
  /\ gcall' = Settle([gcall EXCEPT !.countRead = TRUE,
                                   !.totalDocs = countDocuments(gcall.filter)])
  /\ UNCHANGED <<garments, nextGarmentId, crudVars, authVars>>

\* ------------------------------------------------------ store connection
\* The constructor of KumudMangement calls MongooseConnection.connect() once
\* (configureApp): isConnected is false and connectionPromise is unset, so
\* mongoose.connect is called and its promise kept.  That is the initial
\* state: connectionPromise pending, one attempt.

\* the variables of the service calls, which the lifecycle leaves alone
serviceVars == <<clock, users, calls, histVars, garments, nextGarmentId,
                 gcall, crudVars>>

\* environment: the store becomes reachable or unreachable
StoreReachability ==
  /\ ~exited
  /\ reachable' = ~reachable
  /\ UNCHANGED <<isConnected, connectionPromise, attempts, retryTimer,
                 retryOutcome, handlers, appVars, serviceVars>>

\* mongoose.connect settles and the continuation of connect() runs: on
\* success isConnected is set and the event handlers are registered; on
\* failure the catch block schedules the retry with setTimeout.
\* connectionPromise keeps the settled promise in both cases.
MongooseConnectAnswered ==
  /\ ~exited
  /\ connectionPromise = "pending"
  /\ IF reachable
     THEN /\ connectionPromise' = "fulfilled"
          /\ isConnected' = TRUE
          /\ handlers' = TRUE
          /\ UNCHANGED retryTimer
     ELSE /\ connectionPromise' = "rejected"
          /\ retryTimer' = retryDelayMs \div 1000
          /\ UNCHANGED <<isConnected, handlers>>
  /\ UNCHANGED <<reachable, attempts, retryOutcome, appVars, serviceVars>>

\* a second of the retry delay passes
TimerTick ==
  /\ ~exited
  /\ retryTimer > 0
  /\ retryTimer' = retryTimer - 1
  /\ UNCHANGED <<reachable, isConnected, connectionPromise, attempts,
                 retryOutcome, handlers, appVars, serviceVars>>

\* The retry timer fires and its callback calls connect(): it returns when
\* isConnected; else, when connectionPromise is set, it awaits that promise
\* (and rejects with its error when it was rejected; the callback logs the
\* rejection); else it calls mongoose.connect.
RetryFires ==
  /\ ~exited
  /\ retryTimer = 0
  /\ retryTimer' = NoTimer
  /\ IF isConnected
     THEN /\ retryOutcome' = "alreadyConnected"
          /\ UNCHANGED <<connectionPromise, attempts>>
     ELSE IF connectionPromise # "undefined"
     THEN /\ retryOutcome' = IF connectionPromise = "rejected" THEN "rejected"
                             ELSE "awaited"
          /\ UNCHANGED <<connectionPromise, attempts>>
     ELSE /\ retryOutcome' = "attempt"
          /\ connectionPromise' = "pending"
          /\ attempts' = attempts + 1
  /\ UNCHANGED <<reachable, isConnected, handlers, appVars, serviceVars>>

\* mongoose emits "disconnected" (the connection was lost): the registered
\* handler clears isConnected.  The "connected" and "reconnected" handlers
\* only log.
ConnectionLost ==
  /\ ~exited
  /\ handlers
  /\ isConnected
  /\ ~reachable
  /\ isConnected' = FALSE
  /\ UNCHANGED <<reachable, connectionPromise, attempts, retryTimer,
                 retryOutcome, handlers, appVars, serviceVars>>

\* ------------------------------------------------------- process lifecycle
ProcessEvents == {"SIGINT", "SIGTERM", "uncaughtException", "unhandledRejection"}

\* the exitCode each handler of handleProcessEvents passes
EventExitCode(e) == IF e \in {"SIGINT", "SIGTERM"} THEN 0 ELSE 1

\* initializeApplication: expressApp.listen
initializeApplication ==
  /\ ~exited
  /\ server = "undefined"
  /\ server' = "listening"
  /\ UNCHANGED <<connections, shuttingDown, shutdownPc, exitCode, exited,
                 shutdownCalls, shutdownRuns, shutdownLog, dbVars, serviceVars>>

\* the "error" handler of the server (the port is in use): process.exit(1)
serverError ==
  /\ ~exited
  /\ server = "listening"
  /\ connections = 0
  /\ ~shuttingDown
  /\ exited' = TRUE
  /\ exitCode' = 1
  /\ UNCHANGED <<server, connections, shuttingDown, shutdownPc, shutdownCalls,
                 shutdownRuns, shutdownLog, dbVars, serviceVars>>

\* a request is accepted by the listening server / a request ends
RequestArrives ==
  /\ ~exited
  /\ server = "listening"
  /\ connections < MaxConnections
  /\ connections' = connections + 1
  /\ UNCHANGED <<server, shuttingDown, shutdownPc, exitCode, exited,
                 shutdownCalls, shutdownRuns, shutdownLog, dbVars, serviceVars>>

RequestEnds ==
  /\ ~exited
  /\ connections > 0
  /\ connections' = connections - 1
  /\ UNCHANGED <<server, shuttingDown, shutdownPc, exitCode, exited,
                 shutdownCalls, shutdownRuns, shutdownLog, dbVars, serviceVars>>

\* a gracefulShutdown without the guard
AlreadyShuttingDownUnchecked == FALSE

\* if (this.shuttingDown) return;
AlreadyShuttingDown == shuttingDown

\* A process event is delivered (the event loop delivers them once the
\* synchronous start-up, initializeApplication included, has run) and its
\* handler calls gracefulShutdown(signal, exitCode): after the guard the flag
\* is set and server.close is called, which stops the server accepting.
ProcessEvent(e) ==
  /\ ~exited
  /\ server # "undefined"
  /\ shutdownCalls < MaxEvents
  /\ shutdownCalls' = shutdownCalls + 1
  /\ IF AlreadyShuttingDown
     THEN UNCHANGED <<server, shuttingDown, shutdownPc, exitCode, shutdownRuns>>
     ELSE /\ shuttingDown' = TRUE
          /\ shutdownRuns' = shutdownRuns + 1
          /\ exitCode' = EventExitCode(e)
          /\ server' = IF server = "listening" THEN "closing" ELSE server
          /\ shutdownPc' = "awaitClose"
  /\ UNCHANGED <<connections, exited, shutdownLog, dbVars, serviceVars>>

\* The callback of server.close runs (every open request has ended) and the
\* shutdown continues with disconnect(): with no active connection it
\* returns and process.exit(exitCode) follows; else mongoose.disconnect is
\* awaited.
ServerClosed ==
  /\ ~exited
  /\ shutdownPc = "awaitClose"
  /\ connections = 0
  /\ server' = "closed"
  /\ IF ~isConnected
     THEN /\ shutdownLog' = shutdownLog \o <<"serverClosed", "noConnection", "exit">>
          /\ shutdownPc' = "exited"
          /\ exited' = TRUE
     ELSE /\ shutdownLog' = Append(shutdownLog, "serverClosed")
          /\ shutdownPc' = "awaitDisconnect"
          /\ UNCHANGED exited
  /\ UNCHANGED <<connections, shuttingDown, exitCode, shutdownCalls,
                 shutdownRuns, dbVars, serviceVars>>

\* mongoose.disconnect settles: disconnect() clears isConnected and
\* gracefulShutdown calls process.exit(exitCode); when it rejects the catch
\* block of gracefulShutdown calls process.exit(1).
MongooseDisconnectAnswered(ok) ==
  /\ ~exited
  /\ shutdownPc = "awaitDisconnect"
  /\ shutdownPc' = "exited"
  /\ exited' = TRUE
  /\ IF ok
     THEN /\ isConnected' = FALSE
          /\ shutdownLog' = shutdownLog \o <<"dbDisconnected", "exit">>
          /\ UNCHANGED exitCode
     ELSE /\ shutdownLog' = shutdownLog \o <<"disconnectFailed", "exit">>
          /\ exitCode' = 1
          /\ UNCHANGED isConnected
  /\ UNCHANGED <<server, connections, shuttingDown, shutdownCalls, shutdownRuns,
                 reachable, connectionPromise, attempts, retryTimer,
                 retryOutcome, handlers, serviceVars>>

\* ----------------------------------------------------------- specifications
Init ==
  /\ clock = 0
  /\ users = <<>>
  /\ calls = [p \in Procs |-> IdleCall]
  /\ issued = {}
  /\ refreshedOnce = {}
  /\ refreshedTwice = {}
  /\ loginTokens = {}
  /\ superseded = {}
  /\ revoked = {}
  /\ registered = {}
  /\ createdOnce = {}
  /\ createdTwice = {}
  /\ issuedAccess = {}
  /\ loggedOutAccess = {}
  /\ latest = {}
  /\ garments = <<>>
  /\ nextGarmentId = 1
  /\ gcall = IdleQuery
  /\ crud = [p \in Procs |-> IdleCrud]
  /\ updated = {}
  /\ deleted = {}
  /\ reachable = TRUE
  /\ isConnected = FALSE
  /\ connectionPromise = "pending"
  /\ attempts = 1
  /\ retryTimer = NoTimer
  /\ retryOutcome = "none"
  /\ handlers = FALSE
  /\ server = "undefined"
  /\ connections = 0
  /\ shuttingDown = FALSE
  /\ shutdownPc = "idle"
  /\ exitCode = 0
  /\ exited = FALSE
  /\ shutdownCalls = 0
  /\ shutdownRuns = 0
  /\ shutdownLog = <<>>

\* inputs of the token-lifecycle specification: one account, addressed in
\* either case, and an address that matches no account
AuthRegisterEmails == {"ana@x.com"}
AuthLoginEmails == {"ANA@x.com", "bob@x.com"}
AuthLoginPasswords == {"secret1", "wrong12"}

Register(E, P, R) ==
  \/ \E p \in Procs, e \in E, pw \in P, r \in R : userRegisterInvoke(p, e, pw, r)
  \/ \E p \in Procs : userRegisterExists(p)
  \/ \E p \in Procs : userRegisterCreate(p)

Login(E, P) ==
  \/ \E p \in Procs, e \in E, pw \in P : userLoginInvoke(p, e, pw)
  \/ \E p \in Procs : userLoginFind(p)
  \/ \E p \in Procs : userLoginStore(p)

Refresh ==
  \/ \E p \in Procs, t \in RefreshInputs : refreshAccessTokenInvoke(p, t)
  \/ \E p \in Procs : refreshAccessTokenFind(p)
  \/ \E p \in Procs : refreshAccessTokenStore(p)

Logout ==
  \/ \E p \in Procs, u \in UserIds : userLogoutInvoke(p, u)
  \/ \E p \in Procs : userLogoutClear(p)

Profile ==
  \/ \E p \in Procs, u \in ProfileIds : getUserProfileInvoke(p, u)
  \/ \E p \in Procs : getUserProfileFind(p)

\* registration, with every input
NextRegister == Register(Emails, RegisterPasswords, Roles)

\* registration and login, with every login input, and account deactivation
NextLogin ==
  \/ Register(AuthRegisterEmails, {"secret1"}, {""})
  \/ Login(Emails, LoginPasswords)
  \/ \E u \in UserIds : DeactivateAccount(u)

\* registration, login and profile reads of one account, and its deactivation
NextProfile ==
  \/ Register(AuthRegisterEmails, {"secret1"}, {""})
  \/ Login({"ANA@x.com"}, {"secret1"})
  \/ Profile
  \/ \E u \in UserIds : DeactivateAccount(u)

\* two accounts, the sessions of one of them, and a store in which a token
\* can be misplaced
\* two accounts, logins with right and wrong credentials, refreshes, a
\* deactivation and a misplaced token: every way a login or refresh is refused
NextReject ==
  \/ Register({"ana@x.com", "bob@x.com"}, {"secret1"}, {""})
  \/ Login({"ana@x.com", "bad"}, {"secret1", "wrong12"})
  \/ Refresh
  \/ \E u \in UserIds : DeactivateAccount(u)
  \/ \E u, v \in UserIds : MisplaceToken(u, v)

\* no call is in flight
Sequential == \A q \in Procs : Free(q)

\* a history in which calls do not overlap: a call is started only when no
\* call is in flight; time passes and accounts are deactivated at any point
NextSeq ==
  \/ /\ Sequential
     /\ \/ \E p \in Procs, e \in AuthRegisterEmails :
             userRegisterInvoke(p, e, "secret1", "")
        \/ \E p \in Procs, e \in AuthRegisterEmails :
             userLoginInvoke(p, e, "secret1")
        \/ \E p \in Procs, t \in RefreshInputs : refreshAccessTokenInvoke(p, t)
        \/ \E p \in Procs, u \in UserIds : userLogoutInvoke(p, u)
  \/ \E p \in Procs : userRegisterExists(p)
  \/ \E p \in Procs : userRegisterCreate(p)
  \/ \E p \in Procs : userLoginFind(p)
  \/ \E p \in Procs : userLoginStore(p)
  \/ \E p \in Procs : refreshAccessTokenFind(p)
  \/ \E p \in Procs : refreshAccessTokenStore(p)
  \/ \E p \in Procs : userLogoutClear(p)
  \/ \E u \in UserIds : DeactivateAccount(u)
  \/ Tick

\* two accounts that log in, refresh and log out
NextPair ==
  \/ Register({"ana@x.com", "bob@x.com"}, {"secret1"}, {""})
  \/ Login({"ana@x.com", "bob@x.com"}, {"secret1"})
  \/ Refresh
  \/ Logout

NextCross ==
  \/ Register({"ana@x.com", "bob@x.com"}, {"secret1"}, {""})
  \/ Login({"ana@x.com"}, {"secret1"})
  \/ Refresh
  \/ \E u, v \in UserIds : MisplaceToken(u, v)

\* the token lifecycle of one account
NextAuth ==
  \/ Register(AuthRegisterEmails, {"secret1"}, {""})
  \/ Login(AuthLoginEmails, AuthLoginPasswords)
  \/ Refresh
  \/ Logout
  \/ Tick

\* the protected routes: logins and logouts of one account, and requests
\* through the middleware
NextAccess ==
  \/ Register(AuthRegisterEmails, {"secret1"}, {""})
  \/ Login(AuthLoginEmails, {"secret1"})
  \/ Logout
  \/ \E p \in Procs, h \in AuthHeaders : authMiddleware(p, h)
  \/ Tick

\* the token lifecycle of one account over a store whose operations can fail
NextAuthFail ==
  \/ Register(AuthRegisterEmails, {"secret1"}, {""})
  \/ Login({"ANA@x.com"}, {"secret1"})
  \/ Refresh
  \/ Logout
  \/ Profile
  \/ \E p \in Procs : StoreFailure(p)

NextGarments ==
  \/ \E g \in PagedGarments : addGarments(g)
  \/ \E id \in 1..MaxGarments : deleteGarment(id)
  \/ \E pg \in -1..MaxPage, lim \in -1..MaxLimit : getAllGarmentsInvoke(pg, lim)
  \/ \E n \in SearchTerms, pg \in -1..MaxPage, lim \in -1..MaxLimit :
       searchGarmentsByNameInvoke(n, pg, lim)
  \/ findWithPaginationFind
  \/ findWithPaginationCount

\* the writes and the read by id of the garment service
NextCrud ==
  \/ \E p \in Procs, g \in GarmentInputs : addGarmentsInvoke(p, g)
  \/ \E p \in Procs : addGarmentsCreate(p)
  \/ \E p \in Procs, id \in GarmentIdInputs, d \in UpdateInputs :
       updateGarmentInvoke(p, id, d)
  \/ \E p \in Procs : updateGarmentUpdate(p)
  \/ \E p \in Procs, id \in GarmentIdInputs : deleteGarmentInvoke(p, id)
  \/ \E p \in Procs : deleteGarmentDelete(p)
  \/ \E p \in Procs, id \in GarmentIdInputs : getGarmentByIdInvoke(p, id)
  \/ \E p \in Procs : getGarmentByIdFind(p)
  \/ Tick

\* the garment writes and reads over a store whose operations can fail
NextCrudFail ==
  \/ NextCrud
  \/ \E p \in Procs : CrudStoreFailure(p)

\* the store connection and the shutdown of the process
NextApp ==
  \/ StoreReachability
  \/ MongooseConnectAnswered
  \/ TimerTick
  \/ RetryFires
  \/ ConnectionLost
  \/ initializeApplication
  \/ serverError
  \/ RequestArrives
  \/ RequestEnds
  \/ \E e \in ProcessEvents : ProcessEvent(e)
  \/ ServerClosed
  \/ \E ok \in BOOLEAN : MongooseDisconnectAnswered(ok)

Next ==
  NextSeq \/ NextPair \/ NextReject \/ NextApp \/ NextCross \/ NextProfile \/ NextAuthFail \/ NextCrudFail \/ NextRegister \/ NextLogin \/ NextAuth \/ NextAccess \/ NextGarments \/ NextCrud

SpecRegister == Init /\ [][NextRegister]_vars
SpecLogin == Init /\ [][NextLogin]_vars
SpecProfile == Init /\ [][NextProfile]_vars
SpecCross == Init /\ [][NextCross]_vars
SpecPair == Init /\ [][NextPair]_vars
SpecSeq == Init /\ [][NextSeq]_vars
SpecReject == Init /\ [][NextReject]_vars
SpecAuth == Init /\ [][NextAuth]_vars
SpecAccess == Init /\ [][NextAccess]_vars
SpecGarments == Init /\ [][NextGarments]_vars
SpecCrud == Init /\ [][NextCrud]_vars
SpecAuthFail == Init /\ [][NextAuthFail]_vars
SpecCrudFail == Init /\ [][NextCrudFail]_vars
SpecApp == Init /\ [][NextApp]_vars

\* The event loop runs every callback that is ready: a settled promise's
\* continuation, an expired timer, the close callback of the server.  Time
\* passes.  Process events and changes of the store are not forced.
SpecAppFair ==
  /\ SpecApp
  /\ WF_vars(MongooseConnectAnswered)
  /\ WF_vars(TimerTick)
  /\ WF_vars(RetryFires)
  /\ WF_vars(ServerClosed)
  /\ WF_vars(\E ok \in BOOLEAN : MongooseDisconnectAnswered(ok))
Spec == Init /\ [][Next]_vars

\* ------------------------------------------------------------------ claims
Returned(p, op) == calls[p].pc = "done" /\ calls[p].op = op
Ok(p) == calls[p].result.statusCode = StatusOk

\* C1: token rotation.  Once a refreshAccessToken(rt1) has returned ok, a
\* refreshAccessToken(rt1) invoked later returns a non-ok result, whatever
\* the timing of the calls.
C1_RotatedTokenRejected ==
  \A p \in Procs :
    (Returned(p, "refreshAccessToken") /\ calls[p].rot) => ~Ok(p)

\* C2: single active session.  Once a second userLogin of a user has returned,
\* a refreshAccessToken invoked with the refresh token an earlier login of
\* that user returned gives a non-ok result.
C2_SupersededLoginTokenRejected ==
  \A p \in Procs :
    (Returned(p, "refreshAccessToken") /\ calls[p].sup) => ~Ok(p)

\* C3: revocation.  Once userLogout(u) has returned, a refreshAccessToken
\* invoked with a refresh token issued to u before that logout gives a non-ok
\* result, as long as u has not logged in again.
C3_RevokedTokenRejected ==
  \A p \in Procs :
    (Returned(p, "refreshAccessToken") /\ calls[p].rev) => ~Ok(p)

\* C4: replay protection under concurrency.  For every refresh token value,
\* at most one refreshAccessToken call with it ever returns ok.
C4_AtMostOneRefreshPerToken == refreshedTwice = {}

Created(p) == calls[p].result.statusCode = StatusCreated

\* C5: userRegister calls with the same e-mail never both succeed, however
\* they interleave: at most one of them returns Created, and at most one user
\* record holds that e-mail.
C5_OneRegistrationPerEmail ==
  /\ createdTwice = {}
  /\ \A i, j \in UserIds : users[i].email = users[j].email => i = j

\* two registrations of one e-mail both passed the existence pre-check; one
\* has returned Created and the store has rejected the other's create
C5_Witness ==
  \E p, q \in Procs :
    /\ Returned(p, "userRegister") /\ Created(p)
    /\ Returned(q, "userRegister") /\ calls[q].at = "create" /\ calls[q].rejected
    /\ Len(users) = 1

\* C6: after a userRegister with e-mail e has returned Created, every
\* userRegister invoked later with the same e returns Conflict, and its
\* return creates no user.
C6_RegisteredEmailConflicts ==
  [][\A p \in Procs :
       (/\ calls'[p].pc = "done"
        /\ calls'[p].op = "userRegister"
        /\ calls'[p].dup
        /\ calls'[p] # calls[p])
       => (/\ calls'[p].result.statusCode = StatusConflict
           /\ users' = users)]_vars

\* a registration of an e-mail that an earlier registration had been Created
\* with has returned Conflict
C6_Witness ==
  \E p \in Procs :
    /\ Returned(p, "userRegister") /\ calls[p].dup
    /\ calls[p].result.statusCode = StatusConflict
    /\ users # <<>>

\* C7: when the store rejects userRegister's create because the e-mail is
\* taken, userRegister returns Conflict or BadRequest, not InternalError.
C7_RejectedCreateIsConflict ==
  \A p \in Procs :
    (Returned(p, "userRegister") /\ calls[p].rejected)
      => calls[p].result.statusCode \in {StatusConflict, StatusBadRequest}

\* C8: account-enumeration resistance.  A userLogin with a registered e-mail
\* and a wrong password, and a userLogin with an e-mail that matches no
\* account, return the same message and the same statusCode.
C8_LoginFailuresIndistinguishable ==
  \A p, q \in Procs :
    (/\ Returned(p, "userLogin") /\ calls[p].at = "findByEmail"
     /\ calls[p].found /\ ~calls[p].matched
     /\ Returned(q, "userLogin") /\ calls[q].at = "findByEmail"
     /\ ~calls[q].found)
    => (/\ calls[p].result.message = calls[q].result.message
        /\ calls[p].result.statusCode = calls[q].result.statusCode)

\* C9: for every page < 1 or limit < 1, getAllGarments and
\* searchGarmentsByName return BadRequest and make no repository call.
C9_InvalidPaginationRejected ==
  (gcall.op \in {"getAllGarments", "searchGarmentsByName"}
     /\ (gcall.page < 1 \/ gcall.limit < 1))
  => (/\ gcall.pc = "done"
      /\ gcall.statusCode = StatusBadRequest
      /\ gcall.repoCalls = 0)

\* a search with page 0 and a valid limit has returned BadRequest while the
\* collection holds a garment
C9_Witness ==
  /\ gcall.op = "searchGarmentsByName" /\ gcall.pc = "done"
  /\ gcall.page = 0 /\ gcall.limit = 1
  /\ gcall.statusCode = StatusBadRequest
  /\ garments # <<>>

\* C10: for all page >= 1 and limit >= 1 and every state of the collection,
\* findWithPagination returns at most limit docs, and totalPages is the least
\* number of pages of limit documents that hold totalDocs documents (0 when
\* totalDocs is 0).
C10_PageSizeAndTotalPages ==
  (gcall.pc = "done" /\ gcall.statusCode = StatusOk)
  => LET r == gcall.result
     IN /\ gcall.page >= 1 /\ gcall.limit >= 1
        /\ Len(r.docs) <= gcall.limit
        /\ r.totalPages * gcall.limit >= r.totalDocs
        /\ (r.totalPages - 1) * gcall.limit < r.totalDocs
        /\ (r.totalDocs = 0 => r.totalPages = 0)

\* three documents paged by two: a full first page, and two pages in all
C10_Witness ==
  /\ gcall.pc = "done" /\ gcall.statusCode = StatusOk
  /\ gcall.limit = 2 /\ gcall.page = 1
  /\ gcall.result.totalDocs = 3
  /\ gcall.result.totalPages = 2
  /\ Len(gcall.result.docs) = 2

\* C11: in every findWithPagination result, hasNextPage holds exactly when
\* page < totalPages and hasPrevPage exactly when page > 1; nextPage is
\* page + 1 when hasNextPage and null otherwise, prevPage is page - 1 when
\* hasPrevPage and null otherwise, and currentPage is page.
C11_PaginationFlags ==
  (gcall.pc = "done" /\ gcall.statusCode = StatusOk)
  => LET r == gcall.result
     IN /\ r.hasNextPage <=> (gcall.page < r.totalPages)
        /\ r.hasPrevPage <=> (gcall.page > 1)
        /\ r.hasNextPage => r.nextPage = gcall.page + 1
        /\ ~r.hasNextPage => r.nextPage = NoPage
        /\ r.hasPrevPage => r.prevPage = gcall.page - 1
        /\ ~r.hasPrevPage => r.prevPage = NoPage
        /\ r.currentPage = gcall.page

\* the last of two pages: a previous page and no next page
C11_Witness ==
  /\ gcall.pc = "done" /\ gcall.statusCode = StatusOk
  /\ gcall.page = 2 /\ gcall.result.totalPages = 2
  /\ gcall.result.hasPrevPage /\ gcall.result.prevPage = 1
  /\ ~gcall.result.hasNextPage /\ gcall.result.nextPage = NoPage

\* C12: an updateGarment(id, partial) whose partial violates a schema
\* constraint (a negative price) does not succeed, and leaves the stored
\* garments unchanged in every field.
C12_InvalidUpdateRejected ==
  [][\A p \in Procs :
       (/\ crud'[p] # crud[p]
        /\ crud'[p].op = "updateGarment"
        /\ "price" \in DOMAIN crud'[p].data
        /\ crud'[p].data.price < 0)
       => (/\ crud'[p].statusCode # StatusOk
           /\ garments' = garments)]_vars

\* an updateGarment with price -1 on a stored garment has ended, rejected
C12_Witness ==
  \E p \in Procs :
    /\ crud[p].op = "updateGarment" /\ crud[p].pc = "done"
    /\ "price" \in DOMAIN crud[p].data
    /\ crud[p].data.price = -1
    /\ crud[p].thrown
    /\ HasGarment(crud[p].id)

\* an addGarments of p has returned Created, and a getGarmentById of the id
\* it returned has returned ok from a read with no update in between
RoundTrip(p, q) ==
  /\ crud[p].op = "addGarments" /\ crud[p].pc = "done"
  /\ crud[p].statusCode = StatusCreated
  /\ crud[q].op = "getGarmentById" /\ crud[q].pc = "done"
  /\ crud[q].statusCode = StatusOk
  /\ crud[q].id = crud[p].garment.id
  /\ crud[q].fresh

\* C13 (as stated): for every garment g accepted by addGarments,
\* addGarments(g) followed by getGarmentById of the returned id returns a
\* garment equal to g in every user-supplied field, with createdAt <=
\* updatedAt.
C13_RoundTripEqual ==
  \A p, q \in Procs :
    RoundTrip(p, q)
    => (/\ crud[q].garment.name = crud[p].data.name
        /\ crud[q].garment.price = crud[p].data.price
        /\ crud[q].garment.vendor = crud[p].data.vendor
        /\ crud[q].garment.createdAt <= crud[q].garment.updatedAt)

\* C13 (amended): once addGarments(g) has returned Created with an id, a
\* getGarmentById of that id that reads before any update or delete of it
\* returns ok with a garment equal to g after the schema's setters: name
\* trimmed, vendor trimmed and lower-cased, price as supplied; and createdAt
\* <= updatedAt.
C13_RoundTripNormalised ==
  [][\A p, q \in Procs :
       (/\ crud[p].op = "addGarments" /\ crud[p].pc = "done"
        /\ crud[p].statusCode = StatusCreated
        /\ crud[q].op = "getGarmentById" /\ crud[q].pc = "findById"
        /\ crud[q].id = crud[p].garment.id
        /\ crud[q].id \notin updated \cup deleted
        /\ crud'[q].pc = "done")
       => (/\ crud'[q].statusCode = StatusOk
           /\ crud'[q].garment.name = Trim(crud[p].data.name)
           /\ crud'[q].garment.price = crud[p].data.price
           /\ crud'[q].garment.vendor = ToLowerCase(Trim(crud[p].data.vendor))
           /\ crud'[q].garment.createdAt <= crud'[q].garment.updatedAt)]_vars

\* the round trip of a garment supplied with vendor "B" and a name with a
\* leading blank: it comes back with vendor "b" and the name trimmed
C13_Witness ==
  \E p, q \in Procs :
    /\ RoundTrip(p, q)
    /\ crud[p].data.vendor = <<"B">>
    /\ crud[q].garment.vendor = <<"b">>
    /\ crud[p].data.name = <<" ", "a", "b">>
    /\ crud[q].garment.name = <<"a", "b">>

\* a call on an id, invoked after a deleteGarment of that id had returned ok,
\* has returned
AfterDelete(p) ==
  /\ crud[p].pc = "done" /\ crud[p].gone
  /\ crud[p].op \in {"getGarmentById", "updateGarment", "deleteGarment"}

\* C14 (as stated): after deleteGarment(id) has returned ok, every later
\* getGarmentById(id), updateGarment(id, ...) and deleteGarment(id) returns
\* NotFound.
C14_DeletedIsNotFound ==
  \A p \in Procs : AfterDelete(p) => crud[p].statusCode = StatusNotFound

\* C14 (amended): after deleteGarment(id) has returned ok, every later
\* getGarmentById(id) and deleteGarment(id), and every later
\* updateGarment(id, partial) whose partial satisfies the schema, returns
\* NotFound.
C14_DeletedIsNotFoundForValid ==
  \A p \in Procs :
    (/\ AfterDelete(p)
     /\ "price" \in DOMAIN crud[p].data => crud[p].data.price >= 0)
    => (crud[p].statusCode = StatusNotFound /\ ~crud[p].thrown)

\* an updateGarment with a valid price, invoked on a deleted id, has returned
\* NotFound
C14_Witness ==
  \E p \in Procs :
    /\ AfterDelete(p)
    /\ crud[p].op = "updateGarment"
    /\ "price" \in DOMAIN crud[p].data
    /\ crud[p].data.price = 7
    /\ crud[p].statusCode = StatusNotFound
    /\ crud[p].id \in deleted

C16_LogoutKeepsAccessTokens ==
  \A p \in Procs :
    (/\ Returned(p, "authMiddleware")
     /\ calls[p].old
     /\ calls[p].now < calls[p].token.exp)
    => (calls[p].handler /\ calls[p].userId = calls[p].token.id)

\* a request with an access token of a logged-out user, who holds no stored
\* refresh token, has passed the middleware
C16_Witness ==
  \E p \in Procs :
    /\ Returned(p, "authMiddleware")
    /\ calls[p].old /\ calls[p].handler
    /\ calls[p].token \in issuedAccess
    /\ users[calls[p].token.id].refreshToken = NoToken

\* C20: on a protected route the handler is invoked only if the request
\* carries an access token that verifies (one this server issued, not yet
\* expired).  A request with no token gets 401, a request with an expired or
\* invalid token gets 403, and in both cases the handler is not called.
C20_HandlerOnlyWithValidToken ==
  \A p \in Procs :
    Returned(p, "authMiddleware")
    => LET c == calls[p]
           verifies == c.token \in issuedAccess /\ c.now < c.token.exp
       IN /\ c.handler => verifies
          /\ c.token = NoToken
               => (c.result.statusCode = StatusUnauthorized /\ ~c.handler)
          /\ (c.token # NoToken /\ ~verifies)
               => (c.result.statusCode = StatusForbidden /\ ~c.handler)

\* a request without a token has been answered 401 and a request with an
\* expired access token 403, neither reaching the handler, while the server
\* has issued access tokens
C20_Witness ==
  \E p, q \in Procs :
    /\ Returned(p, "authMiddleware") /\ calls[p].token = NoToken
    /\ calls[p].result.statusCode = StatusUnauthorized /\ ~calls[p].handler
    /\ Returned(q, "authMiddleware") /\ calls[q].token = ExpiredAccessToken
    /\ calls[q].result.statusCode = StatusForbidden /\ ~calls[q].handler
    /\ issuedAccess # {}

\* C17: for every registration payload, including one that carries a role
\* field, a successful userRegister persists the user with role "user" and
\* isActive true.
C17_RegisteredAsUser ==
  \A u \in UserIds : users[u].role = "user" /\ users[u].isActive

\* C18: every Garment Service and Auth Service method returns an envelope
\* {success, message, statusCode, data} for every input and every store
\* outcome, a failing store call included, and never raises.
C18_AlwaysEnvelope ==
  /\ \A p \in Procs :
       crud[p].pc = "done" => (~crud[p].thrown /\ crud[p].statusCode # 0)
  /\ \A p \in Procs :
       (calls[p].pc = "done" /\ calls[p].op # "authMiddleware")
       => calls[p].result.statusCode # 0

\* C19: when a store operation fails during an Auth Service operation, the
\* caller observes InternalError.
C19_StoreFailureIsInternalError ==
  \A p \in Procs :
    (calls[p].pc = "done" /\ calls[p].failed)
    => calls[p].result.statusCode = StatusInternalServerError

\* C21: getUserProfile returns user details only if the account is active:
\* for a user whose isActive is false it does not return ok with the profile.
C21_ProfileOnlyIfActive ==
  [][\A p \in Procs :
       (/\ calls[p].op = "getUserProfile"
        /\ calls[p].pc = "findByIdActive"
        /\ calls'[p].pc = "done"
        /\ calls[p].userId \in UserIds
        /\ ~users[calls[p].userId].isActive)
       => calls'[p].result.statusCode # StatusOk]_vars

\* C22: every refreshAccessToken(t) that returns ok issues an access token
\* and a refresh token whose embedded user id equals the id embedded in t and
\* the id of the user under whom t was stored; when the user that holds t is
\* not the user t embeds, the call fails and issues nothing.
C22_RefreshIdCrossCheck ==
  [][\A p \in Procs :
       LET t == calls[p].token
           res == calls'[p].result
       IN /\ (/\ calls[p].op = "refreshAccessToken"
              /\ calls[p].pc = "findByRefreshToken"
              /\ calls'[p] # calls[p]
              /\ ~(t.id \in UserIds /\ users[t.id].refreshToken = t))
             => (/\ calls'[p].pc = "done"
                 /\ res.statusCode # StatusOk)
          /\ (/\ calls[p].op = "refreshAccessToken"
              /\ calls[p].pc # "done"
              /\ calls'[p].pc = "done")
             => IF res.statusCode = StatusOk
                THEN /\ res.accessToken.id = t.id
                     /\ res.refreshToken.id = t.id
                     /\ users'[t.id].refreshToken = res.refreshToken
                ELSE /\ res.accessToken = NoToken
                     /\ res.refreshToken = NoToken
                     /\ issued' = issued
                     /\ users' = users]_vars

\* a refresh has returned ok, and a refresh with a token that is held by
\* another user's record only has been refused as a mismatch
C22_Witness ==
  \E p, q \in Procs :
    /\ Returned(p, "refreshAccessToken") /\ Ok(p)
    /\ calls[p].result.refreshToken.id = calls[p].result.accessToken.id
    /\ Returned(q, "refreshAccessToken")
    /\ calls[q].result.message = "Token mismatch"
    /\ calls[q].found

\* the value a path holds after the update data has set it
Written(data, f) ==
  CASE f = "name" -> Trim(data.name)
    [] f = "vendor" -> ToLowerCase(Trim(data.vendor))
    [] OTHER -> data[f]

\* C23: concurrent updateGarment calls on the same existing garment return ok
\* with no conflict detected, whatever was written since they were invoked;
\* each write sets the fields of its update and keeps every other field, so
\* a field written by both holds the value of the write applied last, and a
\* field written by one of them holds that update's value.
C23_LastWriteWins ==
  [][\A p \in Procs :
       LET c == crud[p]
       IN (/\ c.op = "updateGarment"
           /\ c.pc = "updateById"
           /\ crud'[p].pc = "done"
           /\ HasGarment(c.id)
           /\ "price" \in DOMAIN c.data => c.data.price >= 0)
          => (/\ crud'[p].statusCode = StatusOk
              /\ Len(garments') = Len(garments)
              /\ \A i \in 1..Len(garments) :
                   IF garments[i].id = c.id
                   THEN \A f \in Fields :
                          garments'[i][f] =
                            IF f \in DOMAIN c.data THEN Written(c.data, f)
                            ELSE garments[i][f]
                   ELSE garments'[i] = garments[i])]_vars

\* two updates of one garment were both invoked before either was applied
\* and both have returned ok: the price is that of the later write and the
\* vendor, which only the earlier one wrote, is kept
C23_Witness ==
  \E p, q \in Procs :
    /\ p # q
    /\ crud[p].op = "updateGarment" /\ crud[p].pc = "done" /\ crud[p].fresh
    /\ crud[q].op = "updateGarment" /\ crud[q].pc = "done" /\ crud[q].fresh
    /\ crud[p].id = crud[q].id
    /\ crud[p].statusCode = StatusOk /\ crud[q].statusCode = StatusOk
    /\ crud[p].data = [price |-> 7]
    /\ crud[q].data = [price |-> 3, vendor |-> <<"B">>]
    /\ crud[q].garment.price = 3
    /\ findById(crud[p].id).price = 7
    /\ findById(crud[p].id).vendor = <<"b">>

\* the number of documents page `page` holds when there are total documents
PageLength(total, page, limit) ==
  LET rest == IF total - (page - 1) * limit > 0
              THEN total - (page - 1) * limit ELSE 0
  IN IF limit < rest THEN limit ELSE rest

\* C24: findWithPagination reads the page and the count as two independent
\* store operations.  The result is returned when the second is answered,
\* after one repository call: it holds the answer the first read was given
\* when it was made and the answer of the second read on the collection as
\* it is then, with no correction when the collection changed in between.
C24_TwoReadsNoSnapshot ==
  [][(gcall.pc = "findWithPagination" /\ gcall'.pc = "done")
     => /\ gcall'.statusCode = StatusOk
        /\ gcall'.repoCalls = 1
        /\ gcall.docsRead
             => /\ gcall'.result.docs = gcall.docs
                /\ gcall'.result.totalDocs = countDocuments(gcall.filter)
        /\ gcall.countRead
             => /\ gcall'.result.totalDocs = gcall.totalDocs
                /\ gcall'.result.docs =
                     SkipLimit(Find(gcall.filter, garments),
                               (gcall.page - 1) * gcall.limit, gcall.limit)]_vars

\* a result whose page does not have the length its totalDocs implies
C24_Witness ==
  /\ gcall.pc = "done" /\ gcall.statusCode = StatusOk
  /\ gcall.repoCalls = 1
  /\ Len(gcall.result.docs) #
       PageLength(gcall.result.totalDocs, gcall.page, gcall.limit)

\* C25: a user's lastLogin is changed only by the step in which a userLogin
\* of that user succeeds; the steps of refreshAccessToken and userLogout
\* leave it as it was.
C25_LastLoginOnlyByLogin ==
  [][\A i \in UserIds :
       users'[i].lastLogin # users[i].lastLogin
       => \E p \in Procs :
            /\ calls[p].op = "userLogin"
            /\ calls[p].pc = "storeLogin"
            /\ calls[p].userId = users[i].id
            /\ calls'[p].pc = "done"
            /\ calls'[p].result.statusCode = StatusOk]_vars

\* C26: when the initial connection attempt has failed and the store is
\* reachable from some time on (and the process is not shut down), the
\* connection manager eventually is connected.
C26_RetryConnects ==
  (<>(connectionPromise = "rejected") /\ <>[](reachable /\ ~shuttingDown /\ ~exited))
  => <>isConnected

\* the shutdown sequences in which the server is closed, the disconnect
\* completes (or there is no active connection to close) and then the
\* process exits
OrderlyShutdowns ==
  {<<"serverClosed", "dbDisconnected", "exit">>,
   <<"serverClosed", "noConnection", "exit">>}

\* C27 as stated: for any sequence of process events the graceful shutdown
\* runs at most once, and in order: the server is closed, then the database
\* disconnect completes, and only then the process exits.
C27_ShutdownOnceInOrder ==
  /\ shutdownRuns <= 1
  /\ (shutdownRuns = 1 /\ ~exited) => shutdownLog \in {<<>>, <<"serverClosed">>}
  /\ (shutdownRuns = 1 /\ exited) => shutdownLog \in OrderlyShutdowns

\* C27: for any sequence of process events the graceful shutdown runs at
\* most once, and in order: the server is closed, then the database
\* disconnect completes, and then the process exits with the exit code of
\* the event that started it; unless the disconnect fails, when the process
\* exits with code 1 after the server was closed.
C27_ShutdownOnceInOrderUnlessFailed ==
  /\ shutdownRuns <= 1
  /\ (shutdownRuns = 1 /\ ~exited) => shutdownLog \in {<<>>, <<"serverClosed">>}
  /\ (shutdownRuns = 1 /\ exited)
       => \/ shutdownLog \in OrderlyShutdowns
          \/ /\ shutdownLog = <<"serverClosed", "disconnectFailed", "exit">>
             /\ exitCode = 1

\* two events were delivered, one shutdown ran: server closed, database
\* disconnected, exit
C27_Witness ==
  /\ shutdownCalls >= 2
  /\ shutdownRuns = 1
  /\ exited
  /\ server = "closed"
  /\ ~isConnected
  /\ shutdownLog = <<"serverClosed", "dbDisconnected", "exit">>

\* C28: a userLogin or refreshAccessToken call that returns non-ok returns no
\* tokens and leaves every user's stored refresh token (the whole User
\* collection) unchanged; and a login with an unknown e-mail, a wrong
\* password or a deactivated account, and a refresh with a token no user
\* holds or one that another user holds, do return non-ok.
C28_RefusedCallChangesNothing ==
  [][\A p \in Procs :
       LET c == calls[p]
           d == calls'[p]
           existingUser == findByEmailWithPassword(LowerTrim(c.email))
           user == findByRefreshToken(c.token)
       IN /\ (/\ d # c
              /\ d.pc = "done"
              /\ d.op \in {"userLogin", "refreshAccessToken"}
              /\ d.result.statusCode # StatusOk)
             => (/\ d.result.accessToken = NoToken
                 /\ d.result.refreshToken = NoToken
                 /\ users' = users
                 /\ issued' = issued)
          /\ (/\ c.op = "userLogin" /\ c.pc = "findByEmail" /\ d # c
              /\ \/ existingUser = NoUser
                 \/ ~existingUser.isActive
                 \/ existingUser.password # Hash(c.password))
             => (d.pc = "done" /\ d.result.statusCode # StatusOk)
          /\ (/\ c.op = "refreshAccessToken" /\ c.pc = "findByRefreshToken"
              /\ d # c
              /\ \/ user = NoUser
                 \/ user.id # c.token.id)
             => (d.pc = "done" /\ d.result.statusCode # StatusOk)]_vars

\* a login of a deactivated account with its password and a refresh with a
\* misplaced token were both refused while a user holds a refresh token
C28_Witness ==
  \E p, q \in Procs :
    /\ calls[p].op = "userLogin" /\ calls[p].pc = "done"
    /\ calls[p].result.statusCode = StatusForbidden
    /\ calls[p].matched
    /\ calls[p].result.refreshToken = NoToken
    /\ calls[q].op = "refreshAccessToken" /\ calls[q].pc = "done"
    /\ calls[q].result.statusCode = StatusUnauthorized
    /\ calls[q].result.accessToken = NoToken
    /\ \E u \in UserIds : users[u].refreshToken # NoToken

\* C29: in every reachable state each user's stored refresh token is absent
\* or is a token that embeds that user's id and was returned to a caller by a
\* login or a refresh; and no two users store the same token.
C29_StoredTokenIsOwn ==
  /\ \A u \in UserIds :
       \/ users[u].refreshToken = NoToken
       \/ /\ users[u].refreshToken.id = users[u].id
          /\ users[u].refreshToken \in issued
  /\ \A u, v \in UserIds :
       (u # v /\ users[u].refreshToken # NoToken)
       => users[u].refreshToken # users[v].refreshToken

\* two users each hold a refresh token, one of them obtained by a refresh
C29_Witness ==
  /\ Len(users) = 2
  /\ users[1].refreshToken # NoToken
  /\ users[2].refreshToken # NoToken
  /\ \E p \in Procs :
       /\ calls[p].op = "refreshAccessToken" /\ calls[p].pc = "done"
       /\ calls[p].result.statusCode = StatusOk
       /\ \E u \in UserIds : users[u].refreshToken = calls[p].result.refreshToken

\* C30: in a history whose calls do not overlap, the refresh token returned
\* by the most recent successful login or refresh of a user, with no logout
\* of that user since, passes verification, and the refreshAccessToken that
\* presents it is accepted: the lookup finds the user, the new pair is
\* signed, and the call returns ok with a new pair whose refresh token is
\* then the user's most recent one.
C30_LatestTokenAccepted ==
  [][/\ \A t \in latest : verifyRefreshToken(t, clock) = "valid" /\ t.id # 0
     /\ \A p \in Procs :
          LET c == calls[p]
              d == calls'[p]
          IN (c.op = "refreshAccessToken" /\ c.token \in latest /\ d # c)
             => /\ c.pc = "findByRefreshToken" => d.pc = "storeRefresh"
                /\ c.pc = "storeRefresh"
                     => /\ d.pc = "done"
                        /\ d.result.statusCode = StatusOk
                        /\ d.result.accessToken # NoToken
                        /\ d.result.refreshToken # NoToken
                        /\ d.result.refreshToken.id = c.token.id
                        /\ d.result.refreshToken \in latest']_vars

\* a token returned by a refresh (no login returned one signed in that
\* second) has itself been accepted by a later refresh
C30_Witness ==
  \E t \in refreshedOnce :
    /\ t.iat = 1
    /\ \A l \in loginTokens : l.iat = 0
    /\ t \in latest
    /\ \E p \in Procs :
         /\ calls[p].op = "refreshAccessToken" /\ calls[p].pc = "done"
         /\ calls[p].result.statusCode = StatusOk
         /\ calls[p].result.refreshToken = t

====
